---------------------------- MODULE Spec2Model ----------------------------
(***************************************************************************)
(* Model of batch-add-getters.py: add_java_bean_getters (the per-file text  *)
(* patcher) and main (the directory driver).                                *)
(*                                                                         *)
(* A text (a Python str) is a sequence of one-character strings.  Python's  *)
(* zero-based positions are kept one-based here; None is modelled by 0.     *)
(* The alphabet is ASCII: letters, digits, '_', punctuation, ' ', '\t' and  *)
(* '\n' (the text as open(..., 'r') returns it, after newline translation). *)
(***************************************************************************)
EXTENDS Integers, Sequences, FiniteSets, TLC

VARIABLES
    fs,             \* the file system: path -> text of the file
    exists,         \* event_dir index -> whether the directory exists
    hist,           \* one record per call of add_java_bean_getters, in call order
    pc,             \* position of main: "idle", "dirs", "files", "done"
    dir_idx,        \* index in event_dirs of the directory being iterated
    pending,        \* paths event_dir.glob('*.java') has still to yield
    updated_count,  \* main's updated_count
    total_count,    \* main's total_count
    printed         \* main's own output lines (directory not found, summary)

vars == <<fs, exists, hist, pc, dir_idx, pending, updated_count, total_count, printed>>

---------------------------------------------------------------------------
(* Character classes of Python's re and str, restricted to ASCII.          *)

LowerCase == <<"a","b","c","d","e","f","g","h","i","j","k","l","m","n","o","p","q","r","s","t","u","v","w","x","y","z">>
UpperCase == <<"A","B","C","D","E","F","G","H","I","J","K","L","M","N","O","P","Q","R","S","T","U","V","W","X","Y","Z">>
Digits == <<"0","1","2","3","4","5","6","7","8","9">>

Range(s) == {s[i] : i \in DOMAIN s}

\* \s and the characters str.strip() removes
Whitespace == {" ", "\n", "\t"}

\* \w
WordChar == Range(LowerCase) \cup Range(UpperCase) \cup Range(Digits) \cup {"_"}

\* membership of a character in a class of the pattern: \s, \S, \w, [^>]
InClass(c, cls) ==
    CASE cls = "s" -> c \in Whitespace
      [] cls = "S" -> c \notin Whitespace
      [] cls = "w" -> c \in WordChar
      [] cls = "notgt" -> c # ">"

\* str.upper() of one character
upper(c) ==
    IF \E i \in DOMAIN LowerCase : LowerCase[i] = c
    THEN UpperCase[CHOOSE i \in DOMAIN LowerCase : LowerCase[i] = c]
    ELSE c

---------------------------------------------------------------------------
(* str operations *)

\* the value of the one-element set S: The({e(x) : x \in {v}}) evaluates v
\* once and names it x in e
The(S) == CHOOSE x \in S : TRUE

Min(S) == CHOOSE x \in S : \A y \in S : x <= y
Max(S) == CHOOSE x \in S : \A y \in S : y <= x

\* text[pos:].startswith(s), pos one-based
StartsWithAt(text, pos, s) ==
    /\ pos + Len(s) - 1 <= Len(text)
    /\ \A i \in 1..Len(s) : text[pos + i - 1] = s[i]

\* s in text
Contains(text, s) == \E pos \in 1..(Len(text) + 1) : StartsWithAt(text, pos, s)

\* text.startswith(s)
startswith(text, s) == StartsWithAt(text, 1, s)

\* text.split('\n'): one part more than there are newlines, the k-th part
\* lying between the (k-1)-th and the k-th newline
split(text) ==
    The({[k \in 1..(Cardinality(nl) + 1) |->
            SubSeq(text,
                   IF k = 1 THEN 1
                   ELSE 1 + The({p \in nl : Cardinality({q \in nl : q <= p}) = k - 1}),
                   IF k = Cardinality(nl) + 1 THEN Len(text)
                   ELSE The({p \in nl : Cardinality({q \in nl : q <= p}) = k}) - 1)] :
         nl \in {{i \in DOMAIN text : text[i] = "\n"}}})

RECURSIVE join(_)
\* '\n'.join(parts)
join(parts) ==
    IF parts = <<>> THEN <<>>
    ELSE IF Len(parts) = 1 THEN parts[1]
    ELSE parts[1] \o <<"\n">> \o join(Tail(parts))

\* line.strip()
strip(line) ==
    The({IF keep = {} THEN <<>> ELSE SubSeq(line, Min(keep), Max(keep)) :
         keep \in {{i \in DOMAIN line : line[i] \notin Whitespace}}})


\* lines[idx] = x in place of lines.insert(idx, x): the line at idx is lost
insert_Overwrite(list, idx, x) ==
    SubSeq(list, 1, idx - 1) \o <<x>> \o SubSeq(list, idx + 1, Len(list))

\* list.insert(idx, x), idx one-based: x is placed before the element at idx
insert(list, idx, x) ==
    SubSeq(list, 1, idx - 1) \o <<x>> \o SubSeq(list, idx, Len(list))

---------------------------------------------------------------------------
(* Literals of the program *)

MARKER == <<"/","/"," ","J","a","v","a","B","e","a","n","-","s","t","y","l","e"," ","g","e","t","t","e","r","s">>
IND4 == <<" "," "," "," ">>
kw_public == <<"p","u","b","l","i","c">>
kw_return == <<"r","e","t","u","r","n">>
kw_get == <<"g","e","t">>
kw_is == <<"i","s">>
kw_boolean == <<"b","o","o","l","e","a","n">>

---------------------------------------------------------------------------
(* The regular expression and re.findall *)

Lit(s) == [t |-> "lit", s |-> s]
Rep(cls, min) == [t |-> "rep", cls |-> cls, min |-> min]
Opt(sub) == [t |-> "opt", sub |-> sub]
Open(g) == [t |-> "open", g |-> g]
Close(g) == [t |-> "close", g |-> g]

\* r'    public\s+(\S+(?:<[^>]+>)?)\s+(\w+)\(\)\s*\{\s*\n\s*return\s+(\w+);\s*\n\s*\}'
accessor_pattern ==
    << Lit(IND4 \o kw_public), Rep("s", 1),
       Open(1), Rep("S", 1), Opt(<<Lit(<<"<">>), Rep("notgt", 1), Lit(<<">">>)>>), Close(1),
       Rep("s", 1),
       Open(2), Rep("w", 1), Close(2),
       Lit(<<"(", ")">>), Rep("s", 0), Lit(<<"{">>),
       Rep("s", 0), Lit(<<"\n">>), Rep("s", 0),
       Lit(kw_return), Rep("s", 1),
       Open(3), Rep("w", 1), Close(3),
       Lit(<<";">>), Rep("s", 0), Lit(<<"\n">>), Rep("s", 0), Lit(<<"}">>) >>

NoCaps == [g \in 1..3 |-> <<0, 0>>]

RECURSIVE RunLen(_, _, _)
\* the number of consecutive characters of class cls from pos on
RunLen(text, pos, cls) ==
    IF pos <= Len(text) /\ InClass(text[pos], cls)
    THEN The({1 + RunLen(text, p, cls) : p \in {pos + 1}})
    ELSE 0

RECURSIVE Matches(_, _, _, _)
\* whether pat[k..] matches some text starting at pos
Matches(text, pat, k, pos) ==
    IF k > Len(pat) THEN TRUE
    ELSE CASE pat[k].t = "lit" ->
                /\ StartsWithAt(text, pos, pat[k].s)
                /\ \E p \in {pos + Len(pat[k].s)} : Matches(text, pat, k + 1, p)
           [] pat[k].t = "rep" ->
                \E n \in pat[k].min..RunLen(text, pos, pat[k].cls) :
                    \E p \in {pos + n} : Matches(text, pat, k + 1, p)
           [] pat[k].t = "opt" ->
                \/ \E with \in {pat[k].sub \o SubSeq(pat, k + 1, Len(pat))} :
                      Matches(text, with, 1, pos)
                \/ Matches(text, pat, k + 1, pos)
           [] pat[k].t \in {"open", "close"} ->
                Matches(text, pat, k + 1, pos)

RECURSIVE Longest(_, _, _, _, _)
\* a greedy repetition pat[k] at pos: the largest count, from n downwards,
\* with which the rest of the pattern still matches (re gives back one
\* character at a time); called only where some count does
Longest(text, pat, k, pos, n) ==
    IF n <= pat[k].min \/ Matches(text, pat, k + 1, pos + n) THEN n
    ELSE Longest(text, pat, k, pos, n - 1)

RECURSIVE MatchFrom(_, _, _, _, _)
\* The match of pat[k..] at pos that re finds first, where Matches holds:
\* its end and its groups.  A greedy repetition takes the longest count the
\* rest allows; an optional group is taken when the rest matches with it.
MatchFrom(text, pat, k, pos, caps) ==
    IF k > Len(pat) THEN [end |-> pos, caps |-> caps]
    ELSE CASE pat[k].t = "lit" ->
                The({MatchFrom(text, pat, k + 1, p, caps) : p \in {pos + Len(pat[k].s)}})
           [] pat[k].t = "rep" ->
                The({MatchFrom(text, pat, k + 1, p, caps) :
                     p \in {pos + Longest(text, pat, k, pos, RunLen(text, pos, pat[k].cls))}})
           [] pat[k].t = "opt" ->
                The({IF Matches(text, with, 1, pos)
                     THEN MatchFrom(text, with, 1, pos, caps)
                     ELSE MatchFrom(text, pat, k + 1, pos, caps) :
                     with \in {pat[k].sub \o SubSeq(pat, k + 1, Len(pat))}})
           [] pat[k].t = "open" ->
                The({MatchFrom(text, pat, k + 1, pos, c) :
                     c \in {[caps EXCEPT ![pat[k].g] = <<pos, pos>>]}})
           [] pat[k].t = "close" ->
                The({MatchFrom(text, pat, k + 1, pos, c) :
                     c \in {[caps EXCEPT ![pat[k].g][2] = pos]}})

Group(text, caps, g) == SubSeq(text, caps[g][1], caps[g][2] - 1)

RECURSIVE SearchFrom(_, _, _)
\* the start of the leftmost match at or after pos, 0 when there is none;
\* a match starts with the pattern's leading literal
SearchFrom(pat, text, pos) ==
    IF pos > Len(text) THEN 0
    ELSE IF Matches(text, pat, 1, pos) THEN pos
    ELSE The({IF nxt = {} THEN 0 ELSE SearchFrom(pat, text, The(nxt)) :
              nxt \in {{p \in (pos + 1)..Len(text) :
                          /\ StartsWithAt(text, p, pat[1].s)
                          /\ \A q \in (pos + 1)..(p - 1) : ~StartsWithAt(text, q, pat[1].s)}}})

RECURSIVE FindAllFrom(_, _, _)
FindAllFrom(pat, text, pos) ==
    The({IF at = 0 THEN <<>>
         ELSE The({<< <<Group(text, m.caps, 1), Group(text, m.caps, 2), Group(text, m.caps, 3)>> >>
                   \o FindAllFrom(pat, text, m.end) :
                   m \in {MatchFrom(text, pat, 1, at, NoCaps)}}) :
         at \in {SearchFrom(pat, text, pos)}})

\* re.findall(pattern, content): the (return_type, method_name, field_name)
\* triples of the non-overlapping matches, left to right
findall(pat, text) == FindAllFrom(pat, text, 1)

---------------------------------------------------------------------------
(* add_java_bean_getters *)


\* getter_name without the boolean test: every name starting with 'is' is
\* only re-capitalised
getter_name_IsOnly(return_type, method_name) ==
    IF startswith(method_name, kw_is)
    THEN <<upper(method_name[1])>> \o Tail(method_name)
    ELSE kw_get \o <<upper(method_name[1])>> \o Tail(method_name)

\* getter_name without the 'is' branch
getter_name_AlwaysGet(return_type, method_name) ==
    kw_get \o <<upper(method_name[1])>> \o Tail(method_name)

\* getter_name of one accessor
getter_name(return_type, method_name) ==
    IF return_type = kw_boolean /\ startswith(method_name, kw_is)
    THEN <<upper(method_name[1])>> \o Tail(method_name)
    ELSE kw_get \o <<upper(method_name[1])>> \o Tail(method_name)

\* f'    public {return_type} {getter_name}() {{ return {field_name}; }}'
getter_decl(return_type, name, field_name) ==
    IND4 \o kw_public \o <<" ">> \o return_type \o <<" ">> \o name
         \o <<"(", ")", " ", "{", " ">> \o kw_return \o <<" ">> \o field_name \o <<";", " ", "}">>


\* getters[0] with a marker text that differs from the one the guard looks for
getters_head_Typo == <<"\n">> \o IND4 \o <<"/", "/", " ", "g", "e", "t", "t", "e", "r", "s">>

\* getters[0]
getters_head == <<"\n">> \o IND4 \o MARKER


\* the loop over accessors run backwards
getters_of_Reversed(accessors) ==
    <<getters_head>> \o
    [i \in 1..Len(accessors) |->
        getter_decl(accessors[Len(accessors) + 1 - i][1],
                    getter_name(accessors[Len(accessors) + 1 - i][1], accessors[Len(accessors) + 1 - i][2]),
                    accessors[Len(accessors) + 1 - i][3])]

\* the list getters: the marker element, then one element per accessor
getters_of(accessors) ==
    <<getters_head>> \o
    [i \in 1..Len(accessors) |->
        getter_decl(accessors[i][1], getter_name(accessors[i][1], accessors[i][2]), accessors[i][3])]

\* the getter_name computed in each iteration of the loop over accessors
getter_names_of(accessors) ==
    [i \in 1..Len(accessors) |-> getter_name(accessors[i][1], accessors[i][2])]


\* stripped.startswith('}') in place of stripped == '}'
IsBrace_Prefix(line) == startswith(strip(line), <<"}">>)

\* is this line the one the backward scan stops at
IsBrace(line) == strip(line) = <<"}">>


\* the backward scan without its break: it ends on the lowest index
last_brace_idx_First(lines) ==
    The({IF hits = {} THEN 0 ELSE Min(hits) :
         hits \in {{i \in DOMAIN lines : IsBrace(lines[i])}}})

\* last_brace_idx: the highest index whose stripped line is '}', 0 for None
last_brace_idx_of(lines) ==
    The({IF hits = {} THEN 0 ELSE Max(hits) :
         hits \in {{i \in DOMAIN lines : IsBrace(lines[i])}}})

Outcome(ret, log, wrote, new_content, accessors, names, getters, idx) ==
    [ret |-> ret, log |-> log, wrote |-> wrote, new_content |-> new_content,
     accessors |-> accessors, names |-> names, getters |-> getters,
     last_brace_idx |-> idx]

\* from "lines = content.split('\n')" on, with the locals computed so far
PatchLines(content, accessors, names, getters, lines, last_brace_idx) ==
    IF last_brace_idx = 0
    THEN Outcome(FALSE, "no_brace", FALSE, content, accessors, names, getters, 0)
    ELSE Outcome(TRUE, "updated", TRUE,
                 join(insert(lines, last_brace_idx, join(getters))),
                 accessors, names, getters, last_brace_idx)

\* from "if not accessors" on
PatchAccessors(content, accessors) ==
    IF accessors = <<>>
    THEN Outcome(FALSE, "no_accessors", FALSE, content, accessors, <<>>, <<>>, 0)
    ELSE The({The({PatchLines(content, accessors, names, getters, lines, last_brace_idx) :
                   last_brace_idx \in {last_brace_idx_of(lines)}}) :
              names \in {getter_names_of(accessors)},
              getters \in {getters_of(accessors)},
              lines \in {split(content)}})


\* the body without the marker guard
Patch_NoGuard(content) ==
    The({PatchAccessors(content, accessors) :
         accessors \in {findall(accessor_pattern, content)}})

\* The body of add_java_bean_getters on the text read: what it returns, which
\* line it prints, whether it writes back and what, and the values of its
\* locals (accessors, the getter names, getters, last_brace_idx).
Patch(content) ==
    IF Contains(content, MARKER)
    THEN Outcome(FALSE, "already", FALSE, content, <<>>, <<>>, <<>>, 0)
    ELSE The({PatchAccessors(content, accessors) :
              accessors \in {findall(accessor_pattern, content)}})

\* One call add_java_bean_getters(file_path): read, patch, write back when
\* the patch says so; the call is recorded in hist.
add_java_bean_getters(file_path) ==
    \E r \in {Patch(fs[file_path])} :
        /\ fs' = IF r.wrote THEN [fs EXCEPT ![file_path] = r.new_content] ELSE fs
        /\ hist' = Append(hist, [path |-> file_path, content |-> fs[file_path],
                                 after |-> IF r.wrote THEN r.new_content ELSE fs[file_path],
                                 ret |-> r.ret, log |-> r.log, wrote |-> r.wrote,
                                 new_content |-> r.new_content, accessors |-> r.accessors,
                                 names |-> r.names, getters |-> r.getters,
                                 last_brace_idx |-> r.last_brace_idx])

---------------------------------------------------------------------------
(* File contents the checks start from *)

MaxFrags == 3
MaxCalls == 2
MaxFiles == 2

w_String == <<"S","t","r","i","n","g">>
w_name == <<"n","a","m","e">>
w_isActive == <<"i","s","A","c","t","i","v","e">>
w_active == <<"a","c","t","i","v","e">>
w_int == <<"i","n","t">>
w_size == <<"s","i","z","e">>
w_Boolean == <<"B","o","o","l","e","a","n">>
w_isValid == <<"i","s","V","a","l","i","d">>
w_valid == <<"v","a","l","i","d">>
w_id == <<"_","i","d">>
w_x1 == <<"x","1">>
w_tags == <<"t","a","g","s">>
w_counts == <<"c","o","u","n","t","s">>
w_ListString == <<"L","i","s","t","<","S","t","r","i","n","g",">">>
w_MapOpen == <<"M","a","p","<","S","t","r","i","n","g",",">>
w_MapClose == <<"I","n","t","e","g","e","r",">">>
IND8 == IND4 \o IND4

\* 'public class E {'
ClassOpen == kw_public \o <<" ","c","l","a","s","s"," ","E"," ","{">>

\* an accessor in the three-line layout:
\*     public <rt> <m>() {
\*         return <f>;
\*     }<tail>
AccessorLines(rt, m, f, tail) ==
    IND4 \o kw_public \o <<" ">> \o rt \o <<" ">> \o m \o <<"(", ")", " ", "{", "\n">>
    \o IND8 \o kw_return \o <<" ">> \o f \o <<";", "\n">>
    \o IND4 \o <<"}">> \o tail

\* the same accessor on one line: '    public <rt> <m>() { return <f>; }'
AccessorOneLine(rt, m, f) ==
    IND4 \o kw_public \o <<" ">> \o rt \o <<" ">> \o m
    \o <<"(", ")", " ", "{", " ">> \o kw_return \o <<" ">> \o f \o <<";", " ", "}">>

AccName == AccessorLines(w_String, w_name, w_name, <<>>)
AccIsActive == AccessorLines(kw_boolean, w_isActive, w_active, <<>>)
\* an accessor whose closing brace shares its line with a comment
AccSize == AccessorLines(w_int, w_size, w_size, <<" ","/","/"," ","s","i","z","e">>)
CloseBrace == <<"}">>
\* '} // end'
CloseComment == <<"}"," ","/","/"," ","e","n","d">>
MarkerLine == IND4 \o MARKER

Fragments == {ClassOpen, AccName, AccIsActive, AccSize, CloseBrace, CloseComment, MarkerLine}

\* the class E of the scenario, its accessors on one line each
ClassE_OneLine ==
    join(<<ClassOpen, AccessorOneLine(w_String, w_name, w_name),
           AccessorOneLine(kw_boolean, w_isActive, w_active), CloseBrace>>)

\* the class E of the scenario, its accessors in the three-line layout
ClassE_ThreeLines == join(<<ClassOpen, AccName, AccIsActive, CloseBrace>>)

\* accessors exercising each case of the getter name
ClassNames ==
    join(<<ClassOpen,
           AccessorLines(kw_boolean, w_active, w_active, <<>>),
           AccessorLines(w_Boolean, w_isValid, w_valid, <<>>),
           AccessorLines(kw_boolean, kw_is, w_x1, <<>>),
           AccessorLines(w_String, w_id, w_id, <<>>),
           AccessorLines(w_int, w_x1, w_x1, <<>>),
           CloseBrace>>)

\* generic return types: on one line, and with the argument list broken
\* across two lines; blank lines inside a body; two accessors with one name
ClassGenerics ==
    join(<<ClassOpen,
           AccessorLines(w_ListString, w_tags, w_tags, <<>>),
           IND4 \o kw_public \o <<" ">> \o w_MapOpen, IND8 \o w_MapClose \o <<" ">> \o w_counts \o <<"(", ")">>,
           IND4 \o <<"{">>, <<>>, IND8 \o kw_return \o <<"\t">> \o w_counts \o <<";">>, <<>>, IND4 \o <<"}">>,
           AccessorLines(w_ListString, w_tags, w_tags, <<>>),
           CloseBrace, <<>>>>)

Samples == {ClassE_OneLine, ClassE_ThreeLines, ClassNames, ClassGenerics}

FragSeqs == UNION {[1..n -> Fragments] : n \in 0..MaxFrags}

\* what f.read() may return for the file under test
Inputs == {join(fr) : fr \in FragSeqs} \cup Samples

---------------------------------------------------------------------------
(* Specification of add_java_bean_getters alone: one file, called up to    *)
(* MaxCalls times in a row.                                                *)

TheFile == <<0, 1>>

Init ==
    /\ fs \in [{TheFile} -> Inputs]
    /\ hist = <<>>
    /\ exists = <<>>
    /\ pc = "idle"
    /\ dir_idx = 0
    /\ pending = {}
    /\ updated_count = 0
    /\ total_count = 0
    /\ printed = <<>>

Call ==
    /\ pc = "idle"
    /\ Len(hist) < MaxCalls
    /\ add_java_bean_getters(TheFile)
    /\ UNCHANGED <<exists, pc, dir_idx, pending, updated_count, total_count, printed>>

Next == Call

Spec == Init /\ [][Next]_vars

---------------------------------------------------------------------------
(* Specification of main: the three event directories, each missing or     *)
(* holding some *.java files.                                              *)

\* len(event_dirs)
NumDirs == 3

\* one short file per disposition: updated, already processed, no accessors,
\* no closing brace
FileUpdatable == join(<<ClassOpen, AccName, CloseBrace>>)
FileMarked == join(<<MarkerLine, CloseBrace>>)
FilePlain == join(<<ClassOpen, CloseBrace>>)
FileNoBrace == AccSize
MainInputs == <<FileUpdatable, FileMarked, FilePlain, FileNoBrace>>

\* the paths <<d, i>> of the files of directory d when it holds n files
DirPaths(d, n) == {<<d, i>> : i \in 1..n}

FilesIn(d) == {p \in DOMAIN fs : p[1] = d}

\* The files of a directory are told apart by their names only and the glob
\* yields them in any order, so the contents of a directory are listed in one
\* order only (non-decreasing in MainInputs).
MainInit ==
    /\ exists \in [1..NumDirs -> BOOLEAN]
    /\ \E n \in [1..NumDirs -> 0..MaxFiles] :
          /\ n[1] + n[2] + n[3] <= MaxFiles
          /\ \A d \in 1..NumDirs : ~exists[d] => n[d] = 0
          /\ \E k \in [UNION {DirPaths(d, n[d]) : d \in 1..NumDirs} -> DOMAIN MainInputs] :
                /\ \A p \in DOMAIN k, q \in DOMAIN k :
                       (p[1] = q[1] /\ p[2] < q[2]) => k[p] <= k[q]
                /\ fs = [p \in DOMAIN k |-> MainInputs[k[p]]]
    /\ hist = <<>>
    /\ pc = "dirs"
    /\ dir_idx = 1
    /\ pending = {}
    /\ updated_count = 0
    /\ total_count = 0
    /\ printed = <<>>

\* for event_dir in event_dirs: if not event_dir.exists(): print; continue
DirMissing ==
    /\ pc = "dirs"
    /\ dir_idx <= NumDirs
    /\ ~exists[dir_idx]
    /\ printed' = Append(printed, [kind |-> "dir_not_found", dir |-> dir_idx])
    /\ dir_idx' = dir_idx + 1
    /\ UNCHANGED <<fs, exists, hist, pc, pending, updated_count, total_count>>

\* event_dir.glob('*.java') starts: the files of the directory, each once
DirGlob ==
    /\ pc = "dirs"
    /\ dir_idx <= NumDirs
    /\ exists[dir_idx]
    /\ pending' = FilesIn(dir_idx)
    /\ pc' = "files"
    /\ UNCHANGED <<fs, exists, hist, dir_idx, updated_count, total_count, printed>>


\* total_count incremented only for the files that were updated
FileStep_CountUpdatedOnly ==
    /\ pc = "files"
    /\ \E java_file \in pending :
          /\ add_java_bean_getters(java_file)
          /\ updated_count' = IF hist'[Len(hist')].ret THEN updated_count + 1 ELSE updated_count
          /\ total_count' = IF hist'[Len(hist')].ret THEN total_count + 1 ELSE total_count
          /\ pending' = pending \ {java_file}
    /\ UNCHANGED <<exists, pc, dir_idx, printed>>

\* one iteration of the inner loop, on whichever file the glob yields next
FileStep ==
    /\ pc = "files"
    /\ \E java_file \in pending :
          /\ total_count' = total_count + 1
          /\ add_java_bean_getters(java_file)
          /\ updated_count' = IF hist'[Len(hist')].ret THEN updated_count + 1 ELSE updated_count
          /\ pending' = pending \ {java_file}
    /\ UNCHANGED <<exists, pc, dir_idx, printed>>

\* the glob is exhausted: on to the next directory
GlobEnd ==
    /\ pc = "files"
    /\ pending = {}
    /\ pc' = "dirs"
    /\ dir_idx' = dir_idx + 1
    /\ UNCHANGED <<fs, exists, hist, pending, updated_count, total_count, printed>>

\* print(f"\nDone! Updated {updated_count} out of {total_count} files.")
Finish ==
    /\ pc = "dirs"
    /\ dir_idx > NumDirs
    /\ printed' = Append(printed, [kind |-> "done", updated |-> updated_count, total |-> total_count])
    /\ pc' = "done"
    /\ UNCHANGED <<fs, exists, hist, dir_idx, pending, updated_count, total_count>>

MainNext == DirMissing \/ DirGlob \/ FileStep \/ GlobEnd \/ Finish

SpecMain == MainInit /\ [][MainNext]_vars

\* main is one sequential thread that runs until it returns: whenever one of
\* its steps is possible, a step is taken
SpecMainFair == SpecMain /\ WF_vars(MainNext)

---------------------------------------------------------------------------
(* Properties *)

\* a line whose whitespace-trimmed text is exactly '}', stated on the line
\* itself: one '}' and nothing but whitespace around it
TrimsToBrace(line) ==
    \E i \in DOMAIN line :
        /\ line[i] = "}"
        /\ \A j \in DOMAIN line \ {i} : line[j] \in Whitespace

\* the indices of the lines of a text that trim to '}'
BareLines(text) == {i \in DOMAIN split(text) : TrimsToBrace(split(text)[i])}

\* the number of line breaks in a text
Breaks(text) == Cardinality({i \in DOMAIN text : text[i] = "\n"})

\* the block as it stands in the written file: the blank line, the marker
\* line and the declarations
BlockOf(h) == join(h.getters)

\* h is the last call so far on its file
LastOnPath(i) == \A k \in DOMAIN hist : k > i => hist[k].path # hist[i].path

\* C1: a call that follows another call on the same file reads what the first
\* left, writes nothing, returns False and leaves the file as the first call
\* left it; it reports "already processed" when the first call updated the
\* file and repeats the first call's skip otherwise.
C1_Idempotent ==
    /\ \A i \in DOMAIN hist : LastOnPath(i) => fs[hist[i].path] = hist[i].after
    /\ \A i \in DOMAIN hist :
          (i + 1 \in DOMAIN hist /\ hist[i + 1].path = hist[i].path) =>
              /\ hist[i + 1].content = hist[i].after
              /\ hist[i + 1].after = hist[i].after
              /\ ~hist[i + 1].wrote
              /\ hist[i + 1].ret = FALSE
              /\ hist[i].ret => hist[i + 1].log = "already"
              /\ ~hist[i].ret => hist[i + 1].log = hist[i].log

C1_Witness ==
    /\ Len(hist) >= 2
    /\ hist[1].wrote
    /\ hist[2].log = "already"

\* C2: whenever the file is written, the written text is the text read with
\* the block (and the line break that ends it) inserted at one line boundary:
\* taking the block out gives back the text read, character for character.
C2_ContentPreserved ==
    \A i \in DOMAIN hist :
        hist[i].wrote =>
            LET h == hist[i]
                block == BlockOf(h) \o <<"\n">>
            IN  /\ h.getters[1] = <<"\n">> \o IND4 \o MARKER
                /\ \E cut \in 0..Len(h.content) :
                      /\ cut = 0 \/ h.content[cut] = "\n"
                      /\ h.after = SubSeq(h.content, 1, cut) \o block
                                   \o SubSeq(h.content, cut + 1, Len(h.content))

C2_Witness ==
    \E i \in DOMAIN hist :
        /\ hist[i].wrote
        /\ hist[i].last_brace_idx > 1
        /\ hist[i].last_brace_idx < Len(split(hist[i].content))

\* C3: whenever the file is written, the block stands immediately before the
\* last line of the text read that trims to '}': the lines before that line
\* are unchanged above the block, that line and the lines after it are
\* unchanged below it.
C3_InsertBeforeLastBrace ==
    \A i \in DOMAIN hist :
        hist[i].wrote =>
            LET old == split(hist[i].content)
                new == split(hist[i].after)
                blk == split(BlockOf(hist[i]))
                bare == BareLines(hist[i].content)
            IN  /\ bare # {}
                /\ Len(new) = Len(old) + Len(blk)
                /\ SubSeq(new, 1, Max(bare) - 1) = SubSeq(old, 1, Max(bare) - 1)
                /\ SubSeq(new, Max(bare), Max(bare) + Len(blk) - 1) = blk
                /\ SubSeq(new, Max(bare) + Len(blk), Len(new)) = SubSeq(old, Max(bare), Len(old))
                /\ TrimsToBrace(new[Max(bare) + Len(blk)])

C3_Witness ==
    \E i \in DOMAIN hist :
        /\ hist[i].wrote
        /\ Cardinality(BareLines(hist[i].content)) >= 2
        /\ Max(BareLines(hist[i].content)) < Len(split(hist[i].content))

w_getName == <<"g","e","t","N","a","m","e">>
w_IsActive == <<"I","s","A","c","t","i","v","e">>

\* the block of the scenario: blank line, marker line, the two declarations
ClassE_Block ==
    <<<<>>, MarkerLine,
      AccessorOneLine(w_String, w_getName, w_name),
      AccessorOneLine(kw_boolean, w_IsActive, w_active)>>

\* C4 as stated: the class E with its accessors on one line each is updated,
\* the block standing immediately before its final '}' line.
C4_OneLineScenario ==
    \A i \in DOMAIN hist :
        hist[i].content = ClassE_OneLine =>
            /\ hist[i].ret
            /\ hist[i].after =
                 join(<<ClassOpen, AccessorOneLine(w_String, w_name, w_name),
                        AccessorOneLine(kw_boolean, w_isActive, w_active)>>
                      \o ClassE_Block \o <<CloseBrace>>)

\* C4 amended: the class E with its accessors in the three-line layout is
\* updated, the block (marker, getName, IsActive, in this order) standing
\* immediately before its final '}' line, and a second run is a no-op; the
\* class E with its accessors on one line each is skipped, no accessor being
\* matched, and left as it is.
C4_ThreeLineScenario ==
    /\ \A i \in DOMAIN hist :
          hist[i].content = ClassE_ThreeLines =>
              /\ hist[i].ret
              /\ hist[i].log = "updated"
              /\ hist[i].after = join(<<ClassOpen, AccName, AccIsActive>> \o ClassE_Block \o <<CloseBrace>>)
              /\ fs[hist[i].path] = hist[i].after
              /\ i + 1 \in DOMAIN hist =>
                    /\ hist[i + 1].ret = FALSE
                    /\ ~hist[i + 1].wrote
                    /\ hist[i + 1].after = hist[i].after
    /\ \A i \in DOMAIN hist :
          hist[i].content = ClassE_OneLine =>
              /\ hist[i].ret = FALSE
              /\ hist[i].log = "no_accessors"
              /\ hist[i].after = ClassE_OneLine

C4_Witness ==
    /\ Len(hist) >= 2
    /\ hist[1].content = ClassE_ThreeLines
    /\ hist[1].wrote

\* C5 as stated: every file without a line that trims to '}' gets the
\* closing-brace warning, is not written and makes the call return False.
C5_AlwaysWarns ==
    \A i \in DOMAIN hist :
        BareLines(hist[i].content) = {} =>
            /\ hist[i].log = "no_brace"
            /\ ~hist[i].wrote
            /\ hist[i].ret = FALSE
            /\ hist[i].after = hist[i].content

\* C5 amended: a file without a line that trims to '}' is never written and
\* the call returns False; the closing-brace warning is printed exactly when
\* the file holds no marker and the extractor finds an accessor in it; a file
\* with the marker gets the already-processed skip and a file without marker
\* and without accessors the no-accessors skip.
C5_NoBraceNoWrite ==
    \A i \in DOMAIN hist :
        BareLines(hist[i].content) = {} =>
            /\ ~hist[i].wrote
            /\ hist[i].ret = FALSE
            /\ hist[i].after = hist[i].content
            /\ LastOnPath(i) => fs[hist[i].path] = hist[i].content
            /\ hist[i].log =
                 IF Contains(hist[i].content, MARKER) THEN "already"
                 ELSE IF findall(accessor_pattern, hist[i].content) = <<>> THEN "no_accessors"
                 ELSE "no_brace"

C5_Witness ==
    \E i \in DOMAIN hist :
        /\ BareLines(hist[i].content) = {}
        /\ hist[i].log = "no_brace"
        /\ hist[i].accessors # <<>>

\* C6: every extracted triple has a non-empty accessor name and gets its
\* name by exactly one of two rules: 'Is<Rest>' (the accessor name with its
\* first letter upper-cased) when the return type is exactly boolean and the
\* accessor name starts with 'is', 'get' followed by the accessor name with
\* its first character upper-cased otherwise; equal (return type, accessor
\* name) pairs get equal names.
C6_NamingRule ==
    /\ \A i \in DOMAIN hist :
          /\ DOMAIN hist[i].names = DOMAIN hist[i].accessors
          /\ \A j \in DOMAIN hist[i].accessors :
                LET rt == hist[i].accessors[j][1]
                    m == hist[i].accessors[j][2]
                    g == hist[i].names[j]
                IN  /\ Len(m) >= 1
                    /\ IF rt = kw_boolean /\ Len(m) >= 2 /\ m[1] = "i" /\ m[2] = "s"
                       THEN g = <<"I", "s">> \o SubSeq(m, 3, Len(m))
                       ELSE g = kw_get \o <<upper(m[1])>> \o SubSeq(m, 2, Len(m))
    /\ \A i1 \in DOMAIN hist, i2 \in DOMAIN hist :
          \A j1 \in DOMAIN hist[i1].accessors, j2 \in DOMAIN hist[i2].accessors :
              (/\ hist[i1].accessors[j1][1] = hist[i2].accessors[j2][1]
               /\ hist[i1].accessors[j1][2] = hist[i2].accessors[j2][2])
              => hist[i1].names[j1] = hist[i2].names[j2]

C6_Witness ==
    \E i \in DOMAIN hist :
        /\ \E j \in DOMAIN hist[i].accessors :
              /\ hist[i].accessors[j][1] = kw_boolean
              /\ hist[i].accessors[j][2] = kw_is
              /\ hist[i].names[j] = <<"I", "s">>
        /\ \E j \in DOMAIN hist[i].accessors :
              /\ hist[i].accessors[j][1] = w_Boolean
              /\ hist[i].accessors[j][2] = w_isValid
        /\ \E j \in DOMAIN hist[i].accessors :
              /\ hist[i].accessors[j][1] = kw_boolean
              /\ hist[i].accessors[j][2] = w_active
        /\ \E j \in DOMAIN hist[i].accessors : hist[i].accessors[j][2] = w_id

\* the declaration the block holds for a triple and its getter name
DeclText(triple, g) ==
    IND4 \o kw_public \o <<" ">> \o triple[1] \o <<" ">> \o g
    \o <<"(", ")", " ", "{", " ">> \o kw_return \o <<" ">> \o triple[3] \o <<";", " ", "}">>

\* C7 as stated: whenever the file is written, the block is, line by line,
\* the blank line, the marker line and one declaration line per extracted
\* triple, the i-th line built from the i-th triple.
C7_OneLinePerTriple ==
    \A i \in DOMAIN hist :
        hist[i].wrote =>
            split(BlockOf(hist[i])) =
                <<<<>>, MarkerLine>> \o
                [j \in DOMAIN hist[i].accessors |-> DeclText(hist[i].accessors[j], hist[i].names[j])]

\* C7 amended: whenever the file is written, the block is the marker element
\* followed by exactly one declaration per triple the extractor matched on
\* the text read, the i-th declaration built from the i-th triple with its
\* return type and field name unchanged (no sorting, no deduplication); a
\* declaration is one line more than its return type has line breaks, so it
\* is a single line exactly when its return type holds no line break.
C7_OneDeclPerTriple ==
    \A i \in DOMAIN hist :
        hist[i].wrote =>
            LET h == hist[i] IN
            /\ h.accessors = findall(accessor_pattern, h.content)
            /\ Len(h.getters) = 1 + Len(h.accessors)
            /\ h.getters[1] = <<"\n">> \o MarkerLine
            /\ \A j \in DOMAIN h.accessors :
                  /\ h.getters[j + 1] = DeclText(h.accessors[j], h.names[j])
                  /\ Len(split(h.getters[j + 1])) = 1 + Breaks(h.accessors[j][1])

C7_Witness ==
    \E i \in DOMAIN hist :
        /\ hist[i].wrote
        /\ Len(hist[i].accessors) >= 3
        /\ \E j \in DOMAIN hist[i].accessors, k \in DOMAIN hist[i].accessors :
              j < k /\ hist[i].accessors[j] = hist[i].accessors[k]
        /\ \E j \in DOMAIN hist[i].accessors : Breaks(hist[i].accessors[j][1]) > 0

\* C8: a call writes the file and returns True exactly when the text read
\* holds no marker, the extractor matches at least one triple and some line
\* trims to '}'; otherwise it returns False and leaves the file as it was;
\* the printed line follows the order of the checks: marker, then no
\* accessors, then no closing brace.
C8_WriteBackCondition ==
    \A i \in DOMAIN hist :
        LET h == hist[i]
            marked == Contains(h.content, MARKER)
            found == findall(accessor_pattern, h.content) # <<>>
            brace == BareLines(h.content) # {}
        IN  /\ h.ret = h.wrote
            /\ h.ret <=> (~marked /\ found /\ brace)
            /\ ~h.ret => h.after = h.content
            /\ h.ret => h.after # h.content /\ Contains(h.after, MARKER)
            /\ LastOnPath(i) => fs[h.path] = h.after
            /\ h.log = IF marked THEN "already"
                       ELSE IF ~found THEN "no_accessors"
                       ELSE IF ~brace THEN "no_brace"
                       ELSE "updated"

C8_Witness ==
    /\ \E i \in DOMAIN hist :
          /\ hist[i].log = "already"
          /\ findall(accessor_pattern, hist[i].content) # <<>>
          /\ BareLines(hist[i].content) # {}
          /\ i = 1

\* the number of calls so far that wrote their file
Written == Cardinality({i \in DOMAIN hist : hist[i].wrote})

\* C9, in every state of main: no file is processed twice; total_count is
\* the number of files examined and updated_count the number of files
\* written, with 0 <= updated_count <= total_count; at the summary every file
\* of every existing directory has been processed exactly once, every missing
\* directory has been reported, and the summary prints these counts.
C9_Counts ==
    /\ \A i \in DOMAIN hist, k \in DOMAIN hist : hist[i].path = hist[k].path => i = k
    /\ total_count = Len(hist)
    /\ updated_count = Written
    /\ 0 <= updated_count /\ updated_count <= total_count
    /\ pc = "done" =>
          /\ \A p \in DOMAIN fs : exists[p[1]] /\ \E i \in DOMAIN hist : hist[i].path = p
          /\ total_count = Cardinality(DOMAIN fs)
          /\ printed[Len(printed)] = [kind |-> "done", updated |-> Written, total |-> Cardinality(DOMAIN fs)]
          /\ \A d \in 1..NumDirs :
                ~exists[d] <=> \E k \in DOMAIN printed : printed[k] = [kind |-> "dir_not_found", dir |-> d]

\* C9: the counts are right throughout, and whatever the dispositions of the
\* files and whichever directories are missing, main reaches its summary.
C9_DriverCounts == []C9_Counts /\ <>(pc = "done")

C9_Witness ==
    /\ pc = "done"
    /\ ~exists[2]
    /\ \E i \in DOMAIN hist, k \in DOMAIN hist :
          /\ i < k
          /\ hist[i].log = "no_brace"
          /\ hist[i].path[1] = 1
          /\ hist[k].log = "updated"
          /\ hist[k].path[1] = 3
    /\ updated_count = 1
    /\ total_count = 2

\* C10: whenever the file is written, every accessor the extractor matched
\* on the text read is matched, with the same triple, on the text written
\* (the block never stands inside an accessor's body).
C10_AccessorsKept ==
    \A i \in DOMAIN hist :
        hist[i].wrote => findall(accessor_pattern, hist[i].after) = hist[i].accessors

===========================================================================
